---------------------------- MODULE Spec2Model ----------------------------
(***************************************************************************)
(* Model of two I2C power-management drivers:                              *)
(*   drivers/leds/leds-bd65b60.c            (BD65B60 backlight driver)     *)
(*   drivers/power/supply/fan5404x_charger.c (FAN5404x charger)            *)
(*                                                                         *)
(* Three specifications share the module:                                  *)
(*   Spec        - the LED driver: threads calling bd65b60_init,           *)
(*                 bd65b60_brightness_set and bd65b60_remove on one device *)
(*   SpecStatus  - the charger's fan5404x_get_property/fan5404x_get_status *)
(*   SpecQuant   - the charger's unit-to-code helpers (pure functions)     *)
(***************************************************************************)
EXTENDS Integers, Sequences, FiniteSets, TLC

(***************************************************************************)
(* Bounds of the model (not program constants).                            *)
(***************************************************************************)
\* total number of driver entry-point invocations in one behaviour
MaxCalls == 3
\* largest input (mV or mA) handed to the charger's conversion helpers; it
\* lies beyond the point where every linear table's quotient exceeds 255
MaxMv == 27000

\* the concurrently calling contexts
Threads == {"t1", "t2"}
\* brightness levels handed to bd65b60_brightness_set (0..255)
Levels == {0, 255}

(***************************************************************************)
(* Bitwise arithmetic as C computes it on int (two's complement).          *)
(***************************************************************************)
RECURSIVE BitAndU(_, _)
\* a & b for a, b >= 0
BitAndU(a, b) ==
    IF a = 0 \/ b = 0 THEN 0
    ELSE (IF a % 2 = 1 /\ b % 2 = 1 THEN 1 ELSE 0)
         + 2 * BitAndU(a \div 2, b \div 2)

RECURSIVE BitOrU(_, _)
\* a | b for a, b >= 0
BitOrU(a, b) ==
    IF a = 0 THEN b
    ELSE IF b = 0 THEN a
    ELSE (IF a % 2 = 1 \/ b % 2 = 1 THEN 1 ELSE 0)
         + 2 * BitOrU(a \div 2, b \div 2)

\* ~x on int
NotInt(x) == (0 - x) - 1

\* C's  a | b  on int; a negative operand is handled through its complement
\* (a | b = ~(~a & ~b), and for b >= 0: ~a & ~b = ~a - (~a & b))
OrInt(a, b) ==
    CASE a >= 0 /\ b >= 0 -> BitOrU(a, b)
      [] a < 0 /\ b < 0   -> NotInt(BitAndU(NotInt(a), NotInt(b)))
      [] a < 0 /\ b >= 0  -> NotInt(NotInt(a) - BitAndU(NotInt(a), b))
      [] a >= 0 /\ b < 0  -> NotInt(NotInt(b) - BitAndU(NotInt(b), a))

\* C's  ~m  restricted to an 8-bit register value
Not8(m) == 255 - m

(***************************************************************************)
(* leds-bd65b60.c: constants                                               *)
(***************************************************************************)
PWMEN_MASK == 32
OVP_MASK == 24
LEDSEL_MASK == 5

REG_SFTRST == 0
REG_COMSET1 == 1
REG_LEDSEL == 3
REG_ILED == 5
REG_CTRLSET == 7
REG_PON == 14

BD65B60_30V_OVP == 8
BD65B60_35V_OVP == 16
BD65B60_LED1SEL == 1
BD65B60_LED12SEL == 5
BD65B60_PWM_ENABLE == 32

BD65B60_OFF == 0
BD65B60_ON == 1
BD65B60_KEEP == 2

\* errno a failed bus transaction returns
EIO == -5

LedRegs == {REG_SFTRST, REG_COMSET1, REG_LEDSEL, REG_ILED, REG_CTRLSET, REG_PON}
LedStates == {BD65B60_OFF, BD65B60_ON, BD65B60_KEEP}
\* outcomes of a regmap call: 0 or a negative errno
BusResults == {0, EIO}
\* values an uninitialized automatic  int  may hold when it is read
UninitInt == {0, 1, EIO}

NoOwner == "none"

VARIABLES
    \* ---- struct bd65b60_led
    led_state,      \* led->state
    led_select,     \* led->select
    led_ovp,        \* led->ovp
    lock,           \* led->lock: the owning thread or NoOwner
    \* ---- the chip behind led->regmap
    regs,           \* register address -> 8-bit content
    \* ---- per calling thread
    pc,             \* position in the function being executed
    brightness,     \* argument of bd65b60_brightness_set
    ret,            \* local  int ret
    new_state,      \* local  enum bd65b60_state new_state
    \* ---- history (observation only, never read by an action's guard)
    oplog,          \* bus operations the current call has issued so far under
                    \* the lock (or, in bd65b60_remove, at all), in order
    entry_state,    \* led->state when the current call took the lock
    entry_pon,      \* chip REG_PON content when the current call took the lock
    cfg_state,      \* led->state as bd65b60_dt_parse configured it
    calls,          \* number of invocations so far
    set_completed,  \* a bd65b60_brightness_set call has completed
    rm_phase,       \* "no" | "running" | "done": progress of bd65b60_remove
    \* ---- fan5404x charger: fan5404x_get_property / fan5404x_get_status
    cpc,            \* position in the property query
    psp,            \* requested property
    ctrl0,          \* local  int ctrl0
    ctrl1,          \* local  int ctrl1
    err,            \* local  int err
    rd_failed,      \* history: a regmap_read of this query failed
    status,         \* local  int status
    intval,         \* val->intval
    prop_ret,       \* return value of fan5404x_get_property
    \* ---- fan5404x charger: conversion helpers
    qpc,            \* "in" | "out"
    qin,            \* the uint32_t argument
    qfn,            \* which helper was applied
    qout,           \* the uint8_t result
    \* ---- bd65b60_probe / bd65b60_dt_parse
    ppc,            \* position in bd65b60_probe and bd65b60_dt_parse
    dt,             \* the device's firmware node: whether it has a child
                    \* node, and that child's properties, each as the set
                    \* holding its value (empty when the property is absent)
    dp_ret,         \* bd65b60_dt_parse: local  int ret, and its return value
    dp_exit,        \* history: the return statement bd65b60_dt_parse took
    probe_ret       \* bd65b60_probe: local  int ret, and its return value

ledVars == <<led_state, led_select, led_ovp, lock, regs, pc, brightness, ret,
             new_state, oplog, entry_state, entry_pon, cfg_state, calls,
             set_completed, rm_phase>>
chgVars == <<cpc, psp, ctrl0, ctrl1, err, rd_failed, status, intval, prop_ret>>
quantVars == <<qpc, qin, qfn, qout>>
probeVars == <<ppc, dt, dp_ret, dp_exit, probe_ret>>
vars == <<ledVars, chgVars, quantVars, probeVars>>

(***************************************************************************)
(* regmap over the LED chip (8-bit registers, 8-bit values).               *)
(***************************************************************************)
\* register file after a successful regmap_write(map, reg, val)
regmap_write(r, reg, val) == [r EXCEPT ![reg] = val % 256]

\* register file after a successful regmap_update_bits(map, reg, mask, val):
\* tmp = orig & ~mask; tmp |= val & mask
regmap_update_bits(r, reg, mask, val) ==
    [r EXCEPT ![reg] = BitOrU(BitAndU(r[reg], Not8(mask)), BitAndU(val % 256, mask))]

WriteOp(reg, val, res) ==
    [kind |-> "write", reg |-> reg, mask |-> 255, val |-> val, ok |-> (res = 0)]
UpdateOp(reg, mask, val, res) ==
    [kind |-> "update", reg |-> reg, mask |-> mask, val |-> val, ok |-> (res = 0)]

\* mutex_lock(&led->lock): blocks until the lock is free
mutex_lock(t) ==
    /\ lock = NoOwner
    /\ lock' = t

\* mutex_unlock(&led->lock)
mutex_unlock(t) ==
    /\ lock' = NoOwner

LedUnchangedOthers == UNCHANGED <<cfg_state, chgVars, quantVars, probeVars>>


(***************************************************************************)
(* Entry of a driver function on thread t.  A device that has been removed *)
(* takes no further calls.                                                 *)
(***************************************************************************)
Enter(t, start) ==
    /\ pc[t] = "idle"
    /\ rm_phase # "done"
    /\ calls < MaxCalls
    /\ calls' = calls + 1
    /\ pc' = [pc EXCEPT ![t] = start]
    /\ oplog' = [oplog EXCEPT ![t] = <<>>]

\* the function returns: its automatic variables die
Leave(t) ==
    /\ pc' = [pc EXCEPT ![t] = "idle"]
    /\ brightness' = [brightness EXCEPT ![t] = 0]
    /\ ret' = [ret EXCEPT ![t] = 0]
    /\ new_state' = [new_state EXCEPT ![t] = BD65B60_OFF]
    /\ oplog' = [oplog EXCEPT ![t] = <<>>]
    /\ entry_state' = [entry_state EXCEPT ![t] = BD65B60_OFF]
    /\ entry_pon' = [entry_pon EXCEPT ![t] = 0]

(***************************************************************************)
(* bd65b60_brightness_set(cdev, brightness)                                *)
(***************************************************************************)
\* variant with the wrong enumerator for a non-zero brightness
NewStateMutKeep(b) == IF b # 0 THEN BD65B60_KEEP ELSE BD65B60_OFF
\* new_state = (brightness) ? BD65B60_ON : BD65B60_OFF;
NewState(b) == IF b # 0 THEN BD65B60_ON ELSE BD65B60_OFF

bs_call(t) ==
    \E b \in Levels :
        /\ Enter(t, "bs_lock")
        /\ brightness' = [brightness EXCEPT ![t] = b]
        /\ UNCHANGED <<led_state, led_select, led_ovp, lock, regs, ret,
                       new_state, entry_state, entry_pon, set_completed, rm_phase>>
        /\ LedUnchangedOthers

\* variant that enters the section without waiting for the lock
bs_mutex_lock_MutNoLock(t) ==
    /\ pc[t] = "bs_lock"
    /\ lock' = t
    /\ pc' = [pc EXCEPT ![t] = "bs_iled"]
    /\ entry_state' = [entry_state EXCEPT ![t] = led_state]
    /\ entry_pon' = [entry_pon EXCEPT ![t] = regs[REG_PON]]
    /\ UNCHANGED <<led_state, led_select, led_ovp, regs, brightness, ret,
                   new_state, oplog, calls, set_completed, rm_phase>>
    /\ LedUnchangedOthers
\* mutex_lock(&led->lock);
bs_mutex_lock(t) ==
    /\ pc[t] = "bs_lock"
    /\ mutex_lock(t)
    /\ pc' = [pc EXCEPT ![t] = "bs_iled"]
    /\ entry_state' = [entry_state EXCEPT ![t] = led_state]
    /\ entry_pon' = [entry_pon EXCEPT ![t] = regs[REG_PON]]
    /\ UNCHANGED <<led_state, led_select, led_ovp, regs, brightness, ret,
                   new_state, oplog, calls, set_completed, rm_phase>>
    /\ LedUnchangedOthers

\* ret = regmap_write(led->regmap, REG_ILED, brightness);
\* new_state = (brightness) ? BD65B60_ON : BD65B60_OFF;
bs_write_iled(t) ==
    /\ pc[t] = "bs_iled"
    /\ \E res \in BusResults :
        /\ regs' = IF res = 0 THEN regmap_write(regs, REG_ILED, brightness[t])
                   ELSE regs
        /\ ret' = [ret EXCEPT ![t] = res]
        /\ oplog' = [oplog EXCEPT
                       ![t] = Append(@, WriteOp(REG_ILED, brightness[t], res))]
    /\ new_state' = [new_state EXCEPT ![t] = NewState(brightness[t])]
    /\ pc' = [pc EXCEPT ![t] = "bs_test"]
    /\ UNCHANGED <<led_state, led_select, led_ovp, lock, brightness,
                   entry_state, entry_pon, calls, set_completed, rm_phase>>
    /\ LedUnchangedOthers

\* variant that writes the power-on register on every call
bs_test_state_MutAlways(t) ==
    /\ pc[t] = "bs_test"
    /\ pc' = [pc EXCEPT ![t] = "bs_pon"]
    /\ UNCHANGED <<led_state, led_select, led_ovp, lock, regs, brightness, ret,
                   new_state, oplog, entry_state, entry_pon, calls, set_completed,
                   rm_phase>>
    /\ LedUnchangedOthers
\* if (new_state != led->state) {
bs_test_state(t) ==
    /\ pc[t] = "bs_test"
    /\ pc' = [pc EXCEPT ![t] = IF new_state[t] # led_state THEN "bs_pon"
                                ELSE "bs_unlock"]
    /\ UNCHANGED <<led_state, led_select, led_ovp, lock, regs, brightness, ret,
                   new_state, oplog, entry_state, entry_pon, calls, set_completed,
                   rm_phase>>
    /\ LedUnchangedOthers

\* variant that writes the brightness level to the power-on register
bs_write_pon_MutLevel(t) ==
    /\ pc[t] = "bs_pon"
    /\ \E res \in BusResults :
        /\ regs' = IF res = 0 THEN regmap_write(regs, REG_PON, brightness[t])
                   ELSE regs
        /\ ret' = [ret EXCEPT ![t] = OrInt(@, res)]
        /\ oplog' = [oplog EXCEPT
                       ![t] = Append(@, WriteOp(REG_PON, brightness[t], res))]
    /\ pc' = [pc EXCEPT ![t] = "bs_store"]
    /\ UNCHANGED <<led_state, led_select, led_ovp, lock, brightness, new_state,
                   entry_state, entry_pon, calls, set_completed, rm_phase>>
    /\ LedUnchangedOthers
\* ret |= regmap_write(led->regmap, REG_PON, new_state);
bs_write_pon(t) ==
    /\ pc[t] = "bs_pon"
    /\ \E res \in BusResults :
        /\ regs' = IF res = 0 THEN regmap_write(regs, REG_PON, new_state[t])
                   ELSE regs
        /\ ret' = [ret EXCEPT ![t] = OrInt(@, res)]
        /\ oplog' = [oplog EXCEPT
                       ![t] = Append(@, WriteOp(REG_PON, new_state[t], res))]
    /\ pc' = [pc EXCEPT ![t] = "bs_store"]
    /\ UNCHANGED <<led_state, led_select, led_ovp, lock, brightness, new_state,
                   entry_state, entry_pon, calls, set_completed, rm_phase>>
    /\ LedUnchangedOthers

\* led->state = new_state;  }
bs_store_state(t) ==
    /\ pc[t] = "bs_store"
    /\ led_state' = new_state[t]
    /\ pc' = [pc EXCEPT ![t] = "bs_unlock"]
    /\ UNCHANGED <<led_select, led_ovp, lock, regs, brightness, ret, new_state,
                   oplog, entry_state, entry_pon, calls, set_completed, rm_phase>>
    /\ LedUnchangedOthers

\* mutex_unlock(&led->lock);
bs_mutex_unlock(t) ==
    /\ pc[t] = "bs_unlock"
    /\ mutex_unlock(t)
    /\ pc' = [pc EXCEPT ![t] = "bs_ret"]
    /\ oplog' = [oplog EXCEPT ![t] = <<>>]
    /\ UNCHANGED <<led_state, led_select, led_ovp, regs, brightness, ret,
                   new_state, entry_state, entry_pon, calls, set_completed,
                   rm_phase>>
    /\ LedUnchangedOthers

\* if (ret) dev_err(...);  return
bs_return(t) ==
    /\ pc[t] = "bs_ret"
    /\ Leave(t)
    /\ set_completed' = TRUE
    /\ UNCHANGED <<led_state, led_select, led_ovp, lock, regs, calls, rm_phase>>
    /\ LedUnchangedOthers

bd65b60_brightness_set(t) ==
    \/ bs_call(t)
    \/ bs_mutex_lock(t)
    \/ bs_write_iled(t)
    \/ bs_test_state(t)
    \/ bs_write_pon(t)
    \/ bs_store_state(t)
    \/ bs_mutex_unlock(t)
    \/ bs_return(t)

(***************************************************************************)
(* bd65b60_init(led)                                                       *)
(***************************************************************************)
\* led->state ? BD65B60_ON : BD65B60_OFF
InitPonValue(s) == IF s # 0 THEN BD65B60_ON ELSE BD65B60_OFF

in_call(t) ==
    /\ Enter(t, "in_lock")
    /\ UNCHANGED <<led_state, led_select, led_ovp, lock, regs, brightness, ret,
                   new_state, entry_state, entry_pon, set_completed, rm_phase>>
    /\ LedUnchangedOthers

\* mutex_lock(&led->lock);
in_mutex_lock(t) ==
    /\ pc[t] = "in_lock"
    /\ mutex_lock(t)
    /\ pc' = [pc EXCEPT ![t] = "in_test"]
    /\ entry_state' = [entry_state EXCEPT ![t] = led_state]
    /\ entry_pon' = [entry_pon EXCEPT ![t] = regs[REG_PON]]
    /\ UNCHANGED <<led_state, led_select, led_ovp, regs, brightness, ret,
                   new_state, oplog, calls, set_completed, rm_phase>>
    /\ LedUnchangedOthers

\* variant that resets the chip whatever the state
in_test_keep_MutAlwaysReset(t) ==
    /\ pc[t] = "in_test"
    /\ pc' = [pc EXCEPT ![t] = "in_rst"]
    /\ UNCHANGED <<led_state, led_select, led_ovp, lock, regs, brightness, ret,
                   new_state, oplog, entry_state, entry_pon, calls, set_completed,
                   rm_phase>>
    /\ LedUnchangedOthers
\* if (BD65B60_KEEP != led->state) { ... }
\* `int ret;` has no initializer: when the branch is skipped the next
\* statement (ret |= ...) reads an indeterminate value.
in_test_keep(t) ==
    /\ pc[t] = "in_test"
    /\ IF BD65B60_KEEP # led_state
       THEN /\ pc' = [pc EXCEPT ![t] = "in_rst"]
            /\ UNCHANGED ret
       ELSE /\ pc' = [pc EXCEPT ![t] = "in_ovp"]
            /\ \E g \in UninitInt : ret' = [ret EXCEPT ![t] = g]
    /\ UNCHANGED <<led_state, led_select, led_ovp, lock, regs, brightness,
                   new_state, oplog, entry_state, entry_pon, calls, set_completed,
                   rm_phase>>
    /\ LedUnchangedOthers

\* ret = regmap_write(led->regmap, REG_SFTRST, 0x01);
in_write_sftrst(t) ==
    /\ pc[t] = "in_rst"
    /\ \E res \in BusResults :
        /\ regs' = IF res = 0 THEN regmap_write(regs, REG_SFTRST, 1) ELSE regs
        /\ ret' = [ret EXCEPT ![t] = res]
        /\ oplog' = [oplog EXCEPT ![t] = Append(@, WriteOp(REG_SFTRST, 1, res))]
    /\ pc' = [pc EXCEPT ![t] = "in_ovp"]
    /\ UNCHANGED <<led_state, led_select, led_ovp, lock, brightness, new_state,
                   entry_state, entry_pon, calls, set_completed, rm_phase>>
    /\ LedUnchangedOthers

\* one  ret |= regmap_update_bits(led->regmap, reg, mask, val);  statement
InitUpdate(t, here, next, reg, mask, val) ==
    /\ pc[t] = here
    /\ \E res \in BusResults :
        /\ regs' = IF res = 0 THEN regmap_update_bits(regs, reg, mask, val)
                   ELSE regs
        /\ ret' = [ret EXCEPT ![t] = OrInt(@, res)]
        /\ oplog' = [oplog EXCEPT ![t] = Append(@, UpdateOp(reg, mask, val, res))]
    /\ pc' = [pc EXCEPT ![t] = next]
    /\ UNCHANGED <<led_state, led_select, led_ovp, lock, brightness, new_state,
                   entry_state, entry_pon, calls, set_completed, rm_phase>>
    /\ LedUnchangedOthers

\* ret |= regmap_update_bits(led->regmap, REG_COMSET1, OVP_MASK, led->ovp);
in_update_ovp(t) ==
    InitUpdate(t, "in_ovp", "in_sel", REG_COMSET1, OVP_MASK, led_ovp)

\* ret |= regmap_update_bits(led->regmap, REG_LEDSEL, LEDSEL_MASK, led->select);
in_update_ledsel(t) ==
    InitUpdate(t, "in_sel", "in_pwm", REG_LEDSEL, LEDSEL_MASK, led_select)

\* ret |= regmap_update_bits(led->regmap, REG_CTRLSET, PWMEN_MASK,
\*                           BD65B60_PWM_ENABLE);
in_update_pwmen(t) ==
    InitUpdate(t, "in_pwm", "in_pon", REG_CTRLSET, PWMEN_MASK, BD65B60_PWM_ENABLE)

\* ret |= regmap_write(led->regmap, REG_PON,
\*                     led->state ? BD65B60_ON : BD65B60_OFF);
in_write_pon(t) ==
    /\ pc[t] = "in_pon"
    /\ \E res \in BusResults :
        /\ regs' = IF res = 0
                   THEN regmap_write(regs, REG_PON, InitPonValue(led_state))
                   ELSE regs
        /\ ret' = [ret EXCEPT ![t] = OrInt(@, res)]
        /\ oplog' = [oplog EXCEPT
                       ![t] = Append(@, WriteOp(REG_PON, InitPonValue(led_state), res))]
    /\ pc' = [pc EXCEPT ![t] = "in_unlock"]
    /\ UNCHANGED <<led_state, led_select, led_ovp, lock, brightness, new_state,
                   entry_state, entry_pon, calls, set_completed, rm_phase>>
    /\ LedUnchangedOthers

\* mutex_unlock(&led->lock);
in_mutex_unlock(t) ==
    /\ pc[t] = "in_unlock"
    /\ mutex_unlock(t)
    /\ pc' = [pc EXCEPT ![t] = "in_ret"]
    /\ oplog' = [oplog EXCEPT ![t] = <<>>]
    /\ UNCHANGED <<led_state, led_select, led_ovp, regs, brightness, ret,
                   new_state, entry_state, entry_pon, calls, set_completed,
                   rm_phase>>
    /\ LedUnchangedOthers

\* return ret;
in_return(t) ==
    /\ pc[t] = "in_ret"
    /\ Leave(t)
    /\ UNCHANGED <<led_state, led_select, led_ovp, lock, regs, calls, set_completed,
                   rm_phase>>
    /\ LedUnchangedOthers

bd65b60_init(t) ==
    \/ in_call(t)
    \/ in_mutex_lock(t)
    \/ in_test_keep(t)
    \/ in_write_sftrst(t)
    \/ in_update_ovp(t)
    \/ in_update_ledsel(t)
    \/ in_update_pwmen(t)
    \/ in_write_pon(t)
    \/ in_mutex_unlock(t)
    \/ in_return(t)

(***************************************************************************)
(* bd65b60_remove(client): called once, takes no lock                      *)
(***************************************************************************)
rm_call(t) ==
    /\ rm_phase = "no"
    /\ Enter(t, "rm_pon")
    /\ rm_phase' = "running"
    /\ UNCHANGED <<led_state, led_select, led_ovp, lock, regs, brightness, ret,
                   new_state, entry_state, entry_pon, set_completed>>
    /\ LedUnchangedOthers

\* if (regmap_write(led->regmap, REG_PON, BD65B60_OFF)) dev_err(...);
rm_write_pon(t) ==
    /\ pc[t] = "rm_pon"
    /\ \E res \in BusResults :
        /\ regs' = IF res = 0 THEN regmap_write(regs, REG_PON, BD65B60_OFF)
                   ELSE regs
        /\ oplog' = [oplog EXCEPT ![t] = Append(@, WriteOp(REG_PON, BD65B60_OFF, res))]
    /\ pc' = [pc EXCEPT ![t] = "rm_ret"]
    /\ UNCHANGED <<led_state, led_select, led_ovp, lock, brightness, ret,
                   new_state, entry_state, entry_pon, calls, set_completed, rm_phase>>
    /\ LedUnchangedOthers

\* variant that goes back to the write when it failed
rm_return_MutRetry(t) ==
    /\ pc[t] = "rm_ret"
    /\ IF ~oplog[t][Len(oplog[t])].ok
       THEN /\ pc' = [pc EXCEPT ![t] = "rm_pon"]
            /\ UNCHANGED <<brightness, ret, new_state, oplog, entry_state,
                           entry_pon, rm_phase>>
       ELSE /\ Leave(t)
            /\ rm_phase' = "done"
    /\ UNCHANGED <<led_state, led_select, led_ovp, lock, regs, calls, set_completed>>
    /\ LedUnchangedOthers
\* return
rm_return(t) ==
    /\ pc[t] = "rm_ret"
    /\ Leave(t)
    /\ rm_phase' = "done"
    /\ UNCHANGED <<led_state, led_select, led_ovp, lock, regs, calls, set_completed>>
    /\ LedUnchangedOthers

bd65b60_remove(t) ==
    \/ rm_call(t)
    \/ rm_write_pon(t)
    \/ rm_return(t)

(***************************************************************************)
(* The LED device after bd65b60_dt_parse and mutex_init: led->state is one *)
(* of the three values bd65b60_dt_parse assigns (lines 152, 162-166),      *)
(* led->select and led->ovp passed their masks, and the chip's registers   *)
(* hold what the boot firmware left there.                                 *)
(***************************************************************************)
SelectValues == {BD65B60_LED1SEL, BD65B60_LED12SEL}
OvpValues == {BD65B60_30V_OVP, BD65B60_35V_OVP}
\* content of the configuration registers left by the boot firmware
PriorConfig == {255}
\* content of REG_PON left by the boot firmware
PriorPon == {0, 1}

ChargerIdle ==
    /\ cpc = "idle" /\ psp = "none" /\ ctrl0 = 0 /\ ctrl1 = 0 /\ err = 0
    /\ rd_failed = FALSE /\ status = "none" /\ intval = "none" /\ prop_ret = 0

QuantIdle ==
    /\ qpc = "off" /\ qin = 0 /\ qfn = "none" /\ qout = 0

\* no probe in progress: the device is taken as already configured
ProbeIdle ==
    /\ ppc = "off"
    /\ dt = [child |-> FALSE, select |-> {}, default_state |-> {}, ovp |-> {}]
    /\ dp_ret = 0 /\ dp_exit = "none" /\ probe_ret = 0

LedInit ==
    /\ led_state \in LedStates
    /\ cfg_state = led_state
    /\ led_select \in SelectValues
    /\ led_ovp \in OvpValues
    /\ lock = NoOwner
    /\ \E c \in PriorConfig, p \in PriorPon :
        regs = [r \in LedRegs |-> IF r = REG_PON THEN p
                                  ELSE IF r \in {REG_SFTRST, REG_ILED} THEN 0
                                  ELSE c]
    /\ pc = [t \in Threads |-> "idle"]
    /\ brightness = [t \in Threads |-> 0]
    /\ ret = [t \in Threads |-> 0]
    /\ new_state = [t \in Threads |-> BD65B60_OFF]
    /\ oplog = [t \in Threads |-> <<>>]
    /\ entry_state = [t \in Threads |-> BD65B60_OFF]
    /\ entry_pon = [t \in Threads |-> 0]
    /\ calls = 0
    /\ set_completed = FALSE
    /\ rm_phase = "no"

Init == LedInit /\ ChargerIdle /\ QuantIdle /\ ProbeIdle

Next ==
    \E t \in Threads :
        \/ bd65b60_brightness_set(t)
        \/ bd65b60_init(t)
        \/ bd65b60_remove(t)

Spec == Init /\ [][Next]_vars

(***************************************************************************)
(* The LED device as bd65b60_probe drives it, on a bus that never fails:   *)
(* bd65b60_init runs first and alone (the class device is registered only  *)
(* after it returned), with led->state OFF or ON; then                     *)
(* bd65b60_brightness_set calls and bd65b60_remove arrive on any thread.   *)
(***************************************************************************)
InPcs == {"in_lock", "in_test", "in_rst", "in_ovp", "in_sel", "in_pwm",
          "in_pon", "in_unlock", "in_ret"}

\* bd65b60_init has been called and has returned
InitReturned == calls >= 1 /\ \A u \in Threads : pc[u] \notin InPcs

\* the bus operation of this step, if any, succeeded
BusReliable ==
    \A u \in Threads :
        Len(oplog'[u]) > Len(oplog[u]) => oplog'[u][Len(oplog'[u])].ok

rl_in_call(t) == calls = 0 /\ in_call(t)
rl_in_write_sftrst(t) == in_write_sftrst(t) /\ BusReliable
rl_in_update_ovp(t) == in_update_ovp(t) /\ BusReliable
rl_in_update_ledsel(t) == in_update_ledsel(t) /\ BusReliable
rl_in_update_pwmen(t) == in_update_pwmen(t) /\ BusReliable
rl_in_write_pon(t) == in_write_pon(t) /\ BusReliable
rl_bs_call(t) == InitReturned /\ bs_call(t)
rl_bs_write_iled(t) == bs_write_iled(t) /\ BusReliable
rl_bs_write_pon(t) == bs_write_pon(t) /\ BusReliable
rl_rm_call(t) == InitReturned /\ rm_call(t)
rl_rm_write_pon(t) == rm_write_pon(t) /\ BusReliable

InitReliable ==
    /\ LedInit /\ ChargerIdle /\ QuantIdle /\ ProbeIdle
    /\ led_state \in {BD65B60_OFF, BD65B60_ON}

NextReliable ==
    \E t \in Threads :
        \/ rl_in_call(t)
        \/ in_mutex_lock(t)
        \/ in_test_keep(t)
        \/ rl_in_write_sftrst(t)
        \/ rl_in_update_ovp(t)
        \/ rl_in_update_ledsel(t)
        \/ rl_in_update_pwmen(t)
        \/ rl_in_write_pon(t)
        \/ in_mutex_unlock(t)
        \/ in_return(t)
        \/ rl_bs_call(t)
        \/ bs_mutex_lock(t)
        \/ rl_bs_write_iled(t)
        \/ bs_test_state(t)
        \/ rl_bs_write_pon(t)
        \/ bs_store_state(t)
        \/ bs_mutex_unlock(t)
        \/ bs_return(t)
        \/ rl_rm_call(t)
        \/ rl_rm_write_pon(t)
        \/ rm_return(t)

SpecReliable == InitReliable /\ [][NextReliable]_vars

(***************************************************************************)
(* Properties of the LED driver (checked under Spec).                      *)
(***************************************************************************)
BsSection == {"bs_iled", "bs_test", "bs_pon", "bs_store", "bs_unlock"}
InSection == {"in_test", "in_rst", "in_ovp", "in_sel", "in_pwm", "in_pon",
              "in_unlock"}
InCS(t) == pc[t] \in BsSection \cup InSection

\* <<kind, register, mask>> of every logged bus operation, in order
OpShape(log) == [i \in 1..Len(log) |-> <<log[i].kind, log[i].reg, log[i].mask>>]
IsPrefix(a, b) == Len(a) <= Len(b) /\ SubSeq(b, 1, Len(a)) = a
FailedOps(log) == {i \in 1..Len(log) : ~log[i].ok}

\* C1: when bd65b60_brightness_set(level) has done its bus work (it is about
\* to unlock), it has issued exactly one write of level to register 0x05;
\* with new_state = ON if level > 0 else OFF, it has issued one write of
\* new_state to register 0x0E if and only if new_state differs from the
\* stored state at entry, and the stored state is then new_state; otherwise
\* no power-on write was issued and the stored state is unchanged.
C1_SetBrightnessWrites ==
    \A t \in Threads :
        pc[t] = "bs_unlock" =>
            LET log == oplog[t]
                ns == IF brightness[t] > 0 THEN 1 ELSE 0
            IN  /\ Len(log) >= 1
                /\ log[1].kind = "write" /\ log[1].reg = 5
                /\ log[1].val = brightness[t]
                /\ \A i \in 2..Len(log) : log[i].reg # 5
                /\ IF ns # entry_state[t]
                   THEN /\ Len(log) = 2
                        /\ log[2].kind = "write" /\ log[2].reg = 14
                        /\ log[2].val = ns
                        /\ led_state = ns
                   ELSE /\ Len(log) = 1
                        /\ led_state = entry_state[t]

\* C1 witness: a second set_brightness(0), entered in state OFF after an
\* earlier call completed, has issued the brightness write and nothing else.
C1_Witness ==
    \E t \in Threads :
        /\ pc[t] = "bs_unlock" /\ brightness[t] = 0
        /\ entry_state[t] = BD65B60_OFF /\ set_completed
        /\ cfg_state = BD65B60_ON
        /\ Len(oplog[t]) = 1

InitOpsFull ==
    << <<"write", 0, 255>>, <<"update", 1, 24>>, <<"update", 3, 5>>,
       <<"update", 7, 32>>, <<"write", 14, 255>> >>
InitOpsKeep == SubSeq(InitOpsFull, 2, 5)

\* C2: bd65b60_init issues its register operations in a fixed order: the
\* soft-reset write (0x00) first when the stored state is not KEEP, then the
\* masked updates of 0x01 (mask 0x18), 0x03 (mask 0x05), 0x07 (mask 0x20),
\* then the write of 0x0E; with state KEEP the soft-reset is never issued.
C2_InitOrder ==
    \A t \in Threads :
        pc[t] \in InSection =>
            LET want == IF entry_state[t] # 2 THEN InitOpsFull ELSE InitOpsKeep
            IN  /\ IsPrefix(OpShape(oplog[t]), want)
                /\ pc[t] = "in_unlock" => OpShape(oplog[t]) = want

\* C2 witness: an initialization in state KEEP that has issued its four
\* operations, none of them the soft-reset.
C2_Witness ==
    \E t \in Threads :
        /\ pc[t] = "in_unlock" /\ entry_state[t] = BD65B60_KEEP
        /\ Len(oplog[t]) = 4

\* C3 (as claimed): the final power-on write of bd65b60_init carries ON if
\* and only if the stored state is ON; for OFF and KEEP it carries OFF.
C3_PonValueOnIffOn ==
    \A t \in Threads :
        pc[t] = "in_unlock" =>
            LET w == oplog[t][Len(oplog[t])]
            IN  /\ w.reg = 14
                /\ w.val = (IF entry_state[t] = 1 THEN 1 ELSE 0)

\* C4 (as claimed): when the stored state is KEEP, bd65b60_init leaves the
\* chip's power-on register as it found it (no other writer being active).
C4_KeepLeavesPon ==
    \A t \in Threads :
        (pc[t] = "in_unlock" /\ entry_state[t] = 2 /\ rm_phase = "no")
            => regs[14] = entry_pon[t]

\* C5 (as claimed): bd65b60_init attempts every operation whatever failed
\* before, and its return value is a failure if and only if at least one of
\* the operations it issued failed.
C5_InitAggregate ==
    \A t \in Threads :
        pc[t] = "in_unlock" =>
            /\ Len(oplog[t]) = (IF entry_state[t] # 2 THEN 5 ELSE 4)
            /\ (ret[t] # 0) <=> (FailedOps(oplog[t]) # {})

\* C6: at most one call is inside its lock-guarded section; the lock is held
\* exactly by the call inside its section (so it is released on every path
\* before returning, also after failed bus writes, and its holder can always
\* take its next step); inside the section the stored state and the
\* brightness register are those the call itself read or wrote.
C6_MutualExclusion ==
    /\ \A t, u \in Threads : (InCS(t) /\ InCS(u)) => t = u
    /\ \A t \in Threads : InCS(t) <=> lock = t
    /\ \A t \in Threads :
        /\ InCS(t) => ENABLED (bd65b60_brightness_set(t) \/ bd65b60_init(t))
        /\ (pc[t] \in (BsSection \cup InSection) \ {"bs_unlock"})
              => led_state = entry_state[t]
        /\ (pc[t] \in {"bs_test", "bs_pon", "bs_store", "bs_unlock"}
            /\ oplog[t][1].ok) => regs[REG_ILED] = brightness[t]

\* C6 witness: one call is inside its section, after a failed bus write,
\* while the other thread waits for the lock.
C6_Witness ==
    \E t, u \in Threads :
        /\ pc[t] = "bs_pon" /\ ~oplog[t][1].ok
        /\ pc[u] \in {"bs_lock", "in_lock"}

\* C7: once a bd65b60_brightness_set call has completed the stored state is
\* OFF or ON; the stored state is KEEP only if it was configured KEEP and no
\* brightness_set has completed; no step takes it from OFF or ON to KEEP.
C7_KeepNotReentered ==
    /\ [](/\ set_completed => led_state \in {0, 1}
          /\ led_state = 2 => (cfg_state = 2 /\ ~set_completed))
    /\ [][(led_state \in {0, 1}) => (led_state' \in {0, 1})]_vars

\* C7 witness: a device configured KEEP has left KEEP through a completed
\* brightness_set, and initialization runs again afterwards.
C7_Witness ==
    /\ cfg_state = BD65B60_KEEP /\ set_completed
    /\ led_state \in {BD65B60_OFF, BD65B60_ON}
    /\ \E t \in Threads : pc[t] = "in_unlock"

(***************************************************************************)
(* fan5404x_charger.c: constants                                           *)
(***************************************************************************)
\* CTRL0_FIELD_STAT = GENMASK(5, 4)
CTRL0_FIELD_STAT == 48
\* CTRL1_FIELD_CE_N = BIT(2)
CTRL1_FIELD_CE_N == 4

STATUS_READY == 0
STATUS_PWM_EN == 1
STATUS_CHARGE_DONE == 2
STATUS_FAULT == 3

\* -EINVAL
EINVAL == -22

\* the properties a caller may ask for: the five of fan5404x_psy_props and
\* one the driver does not implement
PropStatus == "POWER_SUPPLY_PROP_STATUS"
Props == {PropStatus, "POWER_SUPPLY_PROP_CHARGE_TYPE",
          "POWER_SUPPLY_PROP_HEALTH", "POWER_SUPPLY_PROP_PRESENT",
          "POWER_SUPPLY_PROP_ONLINE", "POWER_SUPPLY_PROP_VOLTAGE_MAX"}

\* the POWER_SUPPLY_STATUS_* enumerators the decoder produces
StatusUnknown == "POWER_SUPPLY_STATUS_UNKNOWN"
StatusCharging == "POWER_SUPPLY_STATUS_CHARGING"
StatusDischarging == "POWER_SUPPLY_STATUS_DISCHARGING"
StatusNotCharging == "POWER_SUPPLY_STATUS_NOT_CHARGING"
StatusFull == "POWER_SUPPLY_STATUS_FULL"

\* x << 4
Shl4(x) == x * 16

\* an 8-bit register content
Byte == 0..255

ChgUnchangedOthers == UNCHANGED <<ledVars, quantVars, probeVars>>

(***************************************************************************)
(* fan5404x_get_status(charger): the decode of the two values read         *)
(***************************************************************************)
\* variant that compares the STAT field with the unshifted status codes
DecodeStatusMutNoShift(c0, c1) ==
    LET stat == BitAndU(c0, CTRL0_FIELD_STAT)
        s1 == StatusDischarging
        s2 == IF stat = STATUS_CHARGE_DONE THEN StatusFull ELSE s1
    IN  IF stat = STATUS_PWM_EN
        THEN (IF BitAndU(c1, CTRL1_FIELD_CE_N) # 0 THEN StatusNotCharging
              ELSE StatusCharging)
        ELSE s2
\* status = DISCHARGING;
\* if ((ctrl0 & CTRL0_FIELD_STAT) == STATUS_CHARGE_DONE << 4) status = FULL;
\* if ((ctrl0 & CTRL0_FIELD_STAT) == STATUS_PWM_EN << 4)
\*     status = (ctrl1 & CTRL1_FIELD_CE_N) ? NOT_CHARGING : CHARGING;
DecodeStatus(c0, c1) ==
    LET stat == BitAndU(c0, CTRL0_FIELD_STAT)
        s1 == StatusDischarging
        s2 == IF stat = Shl4(STATUS_CHARGE_DONE) THEN StatusFull ELSE s1
    IN  IF stat = Shl4(STATUS_PWM_EN)
        THEN (IF BitAndU(c1, CTRL1_FIELD_CE_N) # 0 THEN StatusNotCharging
              ELSE StatusCharging)
        ELSE s2

\* a caller invokes fan5404x_get_property(psy, psp, val)
gp_call ==
    /\ cpc = "idle"
    /\ \E p \in Props : psp' = p
    /\ cpc' = "gp_switch"
    /\ UNCHANGED <<ctrl0, ctrl1, err, rd_failed, status, intval, prop_ret>>
    /\ ChgUnchangedOthers

\* switch (psp) { case POWER_SUPPLY_PROP_STATUS:
\*     val->intval = fan5404x_get_status(charger);
\* entering fan5404x_get_status:  int status = POWER_SUPPLY_STATUS_UNKNOWN;
gp_case_status ==
    /\ cpc = "gp_switch"
    /\ psp = PropStatus
    /\ status' = StatusUnknown
    /\ cpc' = "gs_read0"
    /\ UNCHANGED <<psp, ctrl0, ctrl1, err, rd_failed, intval, prop_ret>>
    /\ ChgUnchangedOthers

\* case POWER_SUPPLY_PROP_CHARGE_TYPE / HEALTH / PRESENT / ONLINE
gp_case_fixed ==
    /\ cpc = "gp_switch"
    /\ psp \in {"POWER_SUPPLY_PROP_CHARGE_TYPE", "POWER_SUPPLY_PROP_HEALTH",
                "POWER_SUPPLY_PROP_PRESENT", "POWER_SUPPLY_PROP_ONLINE"}
    /\ intval' = CASE psp = "POWER_SUPPLY_PROP_CHARGE_TYPE"
                        -> "POWER_SUPPLY_CHARGE_TYPE_STANDARD"
                   [] psp = "POWER_SUPPLY_PROP_HEALTH"
                        -> "POWER_SUPPLY_HEALTH_GOOD"
                   [] OTHER -> "1"
    /\ prop_ret' = 0
    /\ cpc' = "gp_ret"
    /\ UNCHANGED <<psp, ctrl0, ctrl1, err, rd_failed, status>>
    /\ ChgUnchangedOthers

\* default: return -EINVAL;
gp_case_default ==
    /\ cpc = "gp_switch"
    /\ psp \notin {PropStatus, "POWER_SUPPLY_PROP_CHARGE_TYPE",
                   "POWER_SUPPLY_PROP_HEALTH", "POWER_SUPPLY_PROP_PRESENT",
                   "POWER_SUPPLY_PROP_ONLINE"}
    /\ prop_ret' = EINVAL
    /\ cpc' = "gp_ret"
    /\ UNCHANGED <<psp, ctrl0, ctrl1, err, rd_failed, status, intval>>
    /\ ChgUnchangedOthers

\* err = regmap_read(charger->regmap, FAN5404X_REG_CTRL0, &ctrl0);
\* the chip's register content is whatever the silicon holds at that moment
gs_read_ctrl0 ==
    /\ cpc = "gs_read0"
    /\ \E res \in BusResults :
        /\ err' = res
        /\ rd_failed' = (res # 0)
        /\ IF res = 0 THEN \E v \in Byte : ctrl0' = v
           ELSE UNCHANGED ctrl0
    /\ cpc' = "gs_read1"
    /\ UNCHANGED <<psp, ctrl1, status, intval, prop_ret>>
    /\ ChgUnchangedOthers

\* err |= regmap_read(charger->regmap, FAN5404X_REG_CTRL1, &ctrl1);
gs_read_ctrl1 ==
    /\ cpc = "gs_read1"
    /\ \E res \in BusResults :
        /\ err' = OrInt(err, res)
        /\ rd_failed' = (rd_failed \/ res # 0)
        /\ IF res = 0 THEN \E v \in Byte : ctrl1' = v
           ELSE UNCHANGED ctrl1
    /\ cpc' = "gs_decode"
    /\ UNCHANGED <<psp, ctrl0, status, intval, prop_ret>>
    /\ ChgUnchangedOthers

\* if (!err) { ...decode... } else { dev_err(dev, "failed get status"); }
gs_decode ==
    /\ cpc = "gs_decode"
    /\ status' = IF err = 0 THEN DecodeStatus(ctrl0, ctrl1) ELSE status
    /\ cpc' = "gs_ret"
    /\ UNCHANGED <<psp, ctrl0, ctrl1, err, rd_failed, intval, prop_ret>>
    /\ ChgUnchangedOthers

\* return status;  (fan5404x_get_status)   val->intval = ...; break;
\* return 0;       (fan5404x_get_property)
GetPropertyStatusRet == 0

gs_return ==
    /\ cpc = "gs_ret"
    /\ intval' = status
    /\ prop_ret' = GetPropertyStatusRet
    /\ cpc' = "gp_ret"
    /\ UNCHANGED <<psp, ctrl0, ctrl1, err, rd_failed, status>>
    /\ ChgUnchangedOthers

\* the caller has the result; the locals die
gp_return ==
    /\ cpc = "gp_ret"
    /\ cpc' = "idle"
    /\ psp' = "none" /\ ctrl0' = 0 /\ ctrl1' = 0 /\ err' = 0
    /\ rd_failed' = FALSE /\ status' = "none" /\ intval' = "none"
    /\ prop_ret' = 0
    /\ ChgUnchangedOthers

fan5404x_get_status ==
    \/ gs_read_ctrl0
    \/ gs_read_ctrl1
    \/ gs_decode
    \/ gs_return

fan5404x_get_property ==
    \/ gp_call
    \/ gp_case_status
    \/ gp_case_fixed
    \/ gp_case_default
    \/ gp_return

LedIdle ==
    /\ led_state = BD65B60_OFF /\ cfg_state = BD65B60_OFF
    /\ led_select = BD65B60_LED1SEL /\ led_ovp = BD65B60_35V_OVP
    /\ lock = NoOwner
    /\ regs = [r \in LedRegs |-> 0]
    /\ pc = [t \in Threads |-> "idle"]
    /\ brightness = [t \in Threads |-> 0]
    /\ ret = [t \in Threads |-> 0]
    /\ new_state = [t \in Threads |-> BD65B60_OFF]
    /\ oplog = [t \in Threads |-> <<>>]
    /\ entry_state = [t \in Threads |-> BD65B60_OFF]
    /\ entry_pon = [t \in Threads |-> 0]
    /\ calls = 0 /\ set_completed = FALSE /\ rm_phase = "no"

InitStatus == LedIdle /\ ChargerIdle /\ QuantIdle /\ ProbeIdle

NextStatus == fan5404x_get_property \/ fan5404x_get_status

SpecStatus == InitStatus /\ [][NextStatus]_vars

(***************************************************************************)
(* Properties of the charger's status query (checked under SpecStatus).    *)
(***************************************************************************)
\* C8: for every pair of CTRL0/CTRL1 values read successfully the decoded
\* status is FULL when STAT (CTRL0 bits 4-5) is 2, CHARGING when STAT is 1
\* and CE_N (CTRL1 bit 2) is 0, NOT_CHARGING when STAT is 1 and CE_N is 1,
\* and DISCHARGING when STAT is 0 or 3; no other bit matters.
C8_StatusDecode ==
    (cpc = "gs_ret" /\ ~rd_failed) =>
        LET stat == (ctrl0 \div 16) % 4
            ce_n == (ctrl1 \div 4) % 2
        IN  status = CASE stat = 2 -> StatusFull
                       [] stat = 1 /\ ce_n = 0 -> StatusCharging
                       [] stat = 1 /\ ce_n = 1 -> StatusNotCharging
                       [] OTHER -> StatusDischarging

\* C8 witness: STAT = PWM_EN with CE_N set, among other bits, decoded as
\* NOT_CHARGING.
C8_Witness ==
    /\ cpc = "gs_ret" /\ ~rd_failed
    /\ ctrl0 = 159 /\ ctrl1 = 255
    /\ status = StatusNotCharging

\* C9 (as claimed): when a register read of the status query failed, the
\* status is UNKNOWN and fan5404x_get_property returns a failure; UNKNOWN is
\* produced only when a read failed.
C9_ReadFailureReported ==
    (cpc = "gp_ret" /\ psp = PropStatus) =>
        /\ rd_failed => (intval = StatusUnknown /\ prop_ret # 0)
        /\ intval = StatusUnknown => rd_failed

(***************************************************************************)
(* bd65b60_probe(client) and bd65b60_dt_parse(led), run on one thread.     *)
(* The fwnode property API follows its contract: a read of an absent       *)
(* property fails with -EINVAL and leaves the destination alone, a read of *)
(* a present one succeeds and stores the value.                            *)
(***************************************************************************)
ENODEV == -19
ENOENT == -2
ENOMEM == -12

ProbeThread == "t1"

\* fwnode_property_present(child, name), on the property's value set
fwnode_property_present(prop) == prop # {}

\* fwnode_property_read_u32(child, name, &dst): the result and dst afterwards
fwnode_property_read_u32(prop, dst) ==
    IF prop = {} THEN [ret |-> EINVAL, val |-> dst]
    ELSE [ret |-> 0, val |-> CHOOSE v \in prop : TRUE]

\* fwnode_property_read_string(child, name, &dst): the result
fwnode_property_read_string(prop) == IF prop = {} THEN EINVAL ELSE 0

\* what the strcmp chain can make of default_state[] once
\* fwnode_property_read_string has stored a pointer over the 5-byte array
\* (it was handed the address of the array as a const char **): the bytes
\* are indeterminate, so any of the four branches
ClobberedCompare == {"keep", "on", "off", "other"}

ProbeUnchangedLed ==
    UNCHANGED <<regs, pc, brightness, ret, new_state, oplog, entry_state,
                entry_pon, calls, set_completed, rm_phase>>
ProbeUnchangedOthers == ProbeUnchangedLed /\ UNCHANGED <<chgVars, quantVars>>

\* bd65b60_dt_parse returns r to bd65b60_probe from the named statement
dp_Return(site, r) ==
    /\ ppc' = "pr_dt"
    /\ dp_ret' = r
    /\ dp_exit' = site

\* led = devm_kzalloc(...); if (!led) return -ENOMEM;  then the call of
\* bd65b60_dt_parse
pr_alloc ==
    /\ ppc = "pr_alloc"
    /\ \E ok \in BOOLEAN :
        IF ok THEN /\ ppc' = "dp_child"
                   /\ UNCHANGED probe_ret
        ELSE /\ ppc' = "done"
             /\ probe_ret' = ENOMEM
    /\ led_state' = 0 /\ led_select' = 0 /\ led_ovp' = 0 /\ cfg_state' = 0
    /\ UNCHANGED <<lock, dt, dp_ret, dp_exit>>
    /\ ProbeUnchangedOthers

\* child = device_get_next_child_node(dev, child);
\* if (!child) return -ENODEV;
dp_child ==
    /\ ppc = "dp_child"
    /\ IF ~dt.child THEN dp_Return("child", ENODEV)
       ELSE /\ ppc' = "dp_select"
            /\ UNCHANGED <<dp_ret, dp_exit>>
    /\ UNCHANGED <<led_state, led_select, led_ovp, cfg_state, lock, dt, probe_ret>>
    /\ ProbeUnchangedOthers

\* if (!fwnode_property_present(child, "select")) return -ENOENT;
\* ret = fwnode_property_read_u32(child, "select", &led->select);
\* if (ret || (led->select & LEDSEL_MASK) != led->select) return ret;
dp_select ==
    /\ ppc = "dp_select"
    /\ IF ~fwnode_property_present(dt.select)
       THEN /\ dp_Return("select", ENOENT)
            /\ UNCHANGED led_select
       ELSE LET rd == fwnode_property_read_u32(dt.select, led_select)
            IN  /\ led_select' = rd.val
                /\ IF rd.ret # 0 \/ BitAndU(rd.val, LEDSEL_MASK) # rd.val
                   THEN dp_Return("select", rd.ret)
                   ELSE /\ ppc' = "dp_default_state"
                        /\ dp_ret' = rd.ret
                        /\ UNCHANGED dp_exit
    /\ UNCHANGED <<led_state, led_ovp, cfg_state, lock, dt, probe_ret>>
    /\ ProbeUnchangedOthers

\* led->state = BD65B60_OFF;
\* if (!fwnode_property_present(child, "default-state")) {
\*     ret = fwnode_property_read_string(child, "default-state", ...);
\*     if (ret) return ret;
\*     strcmp chain: "keep" / "on" / "off" / else return -EINVAL;  }
dp_default_state ==
    /\ ppc = "dp_default_state"
    /\ IF ~fwnode_property_present(dt.default_state)
       THEN LET r == fwnode_property_read_string(dt.default_state)
            IN  IF r # 0
                THEN /\ led_state' = BD65B60_OFF
                     /\ dp_Return("default-state", r)
                ELSE \E s \in ClobberedCompare :
                        IF s = "other"
                        THEN /\ led_state' = BD65B60_OFF
                             /\ dp_Return("default-state", EINVAL)
                        ELSE /\ led_state' = (CASE s = "keep" -> BD65B60_KEEP
                                                [] s = "on" -> BD65B60_ON
                                                [] s = "off" -> BD65B60_OFF)
                             /\ ppc' = "dp_ovp"
                             /\ dp_ret' = r
                             /\ UNCHANGED dp_exit
       ELSE /\ led_state' = BD65B60_OFF
            /\ ppc' = "dp_ovp"
            /\ UNCHANGED <<dp_ret, dp_exit>>
    /\ cfg_state' = led_state'
    /\ UNCHANGED <<led_select, led_ovp, lock, dt, probe_ret>>
    /\ ProbeUnchangedOthers

\* led->ovp = BD65B60_DEFAULT_OVP_VAL;
\* if (fwnode_property_present(child, "ovp")) {
\*     ret = fwnode_property_read_u32(child, "ovp", &led->ovp);
\*     if (ret || (led->ovp & OVP_MASK) != led->ovp) return ret;  }
\* return 0;
dp_ovp ==
    /\ ppc = "dp_ovp"
    /\ IF fwnode_property_present(dt.ovp)
       THEN LET rd == fwnode_property_read_u32(dt.ovp, BD65B60_35V_OVP)
            IN  /\ led_ovp' = rd.val
                /\ IF rd.ret # 0 \/ BitAndU(rd.val, OVP_MASK) # rd.val
                   THEN dp_Return("ovp", rd.ret)
                   ELSE dp_Return("end", 0)
       ELSE /\ led_ovp' = BD65B60_35V_OVP
            /\ dp_Return("end", 0)
    /\ UNCHANGED <<led_state, led_select, cfg_state, lock, dt, probe_ret>>
    /\ ProbeUnchangedOthers

\* ret = bd65b60_dt_parse(led);  if (ret) return ret;
pr_dt_check ==
    /\ ppc = "pr_dt"
    /\ probe_ret' = dp_ret
    /\ ppc' = IF dp_ret # 0 THEN "done" ELSE "pr_regmap"
    /\ UNCHANGED <<led_state, led_select, led_ovp, cfg_state, lock, dt,
                   dp_ret, dp_exit>>
    /\ ProbeUnchangedOthers

\* led->regmap = devm_regmap_init_i2c(...);
\* if (IS_ERR(led->regmap)) return PTR_ERR(led->regmap);
\* mutex_init(&led->lock);
pr_regmap_init ==
    /\ ppc = "pr_regmap"
    /\ \E res \in {0, ENOMEM} :
        /\ probe_ret' = res
        /\ ppc' = IF res # 0 THEN "done" ELSE "pr_init"
    /\ lock' = NoOwner
    /\ UNCHANGED <<led_state, led_select, led_ovp, cfg_state, dt, dp_ret, dp_exit>>
    /\ ProbeUnchangedOthers

\* the call of bd65b60_init(led)
pr_init_call ==
    /\ ppc = "pr_init"
    /\ calls = 0
    /\ in_call(ProbeThread)

\* the steps of bd65b60_init between its entry and its return statement
pr_in_mutex_lock == ppc = "pr_init" /\ in_mutex_lock(ProbeThread)
pr_in_test_keep == ppc = "pr_init" /\ in_test_keep(ProbeThread)
pr_in_write_sftrst == ppc = "pr_init" /\ in_write_sftrst(ProbeThread)
pr_in_update_ovp == ppc = "pr_init" /\ in_update_ovp(ProbeThread)
pr_in_update_ledsel == ppc = "pr_init" /\ in_update_ledsel(ProbeThread)
pr_in_update_pwmen == ppc = "pr_init" /\ in_update_pwmen(ProbeThread)
pr_in_write_pon == ppc = "pr_init" /\ in_write_pon(ProbeThread)
pr_in_mutex_unlock == ppc = "pr_init" /\ in_mutex_unlock(ProbeThread)

\* ret = bd65b60_init(led);  the value handed back by its return statement
pr_init_result ==
    /\ ppc = "pr_init"
    /\ pc[ProbeThread] = "in_ret"
    /\ probe_ret' = ret[ProbeThread]
    /\ ppc' = "pr_init_ret"
    /\ UNCHANGED <<led_state, led_select, led_ovp, cfg_state, lock, dt,
                   dp_ret, dp_exit>>
    /\ ProbeUnchangedOthers

\* bd65b60_init's frame is gone
pr_init_return ==
    /\ ppc = "pr_init_ret"
    /\ in_return(ProbeThread)

\* if (ret) return ret;
pr_init_check ==
    /\ ppc = "pr_init_ret"
    /\ pc[ProbeThread] = "idle"
    /\ ppc' = IF probe_ret # 0 THEN "done" ELSE "pr_register"
    /\ UNCHANGED <<led_state, led_select, led_ovp, cfg_state, lock, dt,
                   dp_ret, dp_exit, probe_ret>>
    /\ ProbeUnchangedOthers

\* ret = devm_led_classdev_register(&client->dev, &led->cdev);
\* if (ret) return ret;  return 0;
pr_register ==
    /\ ppc = "pr_register"
    /\ \E res \in {0, ENOMEM} : probe_ret' = res
    /\ ppc' = "done"
    /\ UNCHANGED <<led_state, led_select, led_ovp, cfg_state, lock, dt,
                   dp_ret, dp_exit>>
    /\ ProbeUnchangedOthers

bd65b60_dt_parse ==
    \/ dp_child
    \/ dp_select
    \/ dp_default_state
    \/ dp_ovp

bd65b60_probe ==
    \/ pr_alloc
    \/ bd65b60_dt_parse
    \/ pr_dt_check
    \/ pr_regmap_init
    \/ pr_init_call
    \/ pr_in_mutex_lock
    \/ pr_in_test_keep
    \/ pr_in_write_sftrst
    \/ pr_in_update_ovp
    \/ pr_in_update_ledsel
    \/ pr_in_update_pwmen
    \/ pr_in_write_pon
    \/ pr_in_mutex_unlock
    \/ pr_init_result
    \/ pr_init_return
    \/ pr_init_check
    \/ pr_register

\* the firmware nodes a device may be described by
DtSelect == {{}, {0}, {BD65B60_LED1SEL}, {2}, {4}, {BD65B60_LED12SEL}, {7}}
DtDefaultState == {{}, {"keep"}, {"on"}, {"off"}, {"bogus"}}
DtOvp == {{}, {0}, {BD65B60_30V_OVP}, {BD65B60_35V_OVP}, {24}, {32}}
DtNodes == [child : BOOLEAN, select : DtSelect,
            default_state : DtDefaultState, ovp : DtOvp]

InitProbe ==
    /\ LedIdle /\ ChargerIdle /\ QuantIdle
    /\ ppc = "pr_alloc"
    /\ dt \in DtNodes
    /\ dp_ret = 0 /\ dp_exit = "none" /\ probe_ret = 0

NextProbe == bd65b60_probe

SpecProbe == InitProbe /\ [][NextProbe]_vars

(***************************************************************************)
(* fan5404x_charger.c: unit-to-code helpers.  Each takes a uint32_t and    *)
(* returns a uint8_t (the quotient is truncated to 8 bits on return).      *)
(***************************************************************************)
\* conversion of the int quotient to the uint8_t return type
ToU8(x) == x % 256

\* static uint8_t fan5404x_get_vbus_limit(const uint32_t voltage_mv)
fan5404x_get_vbus_limit(voltage_mv) ==
    IF voltage_mv < 4213 THEN 0
    ELSE IF voltage_mv > 4773 THEN 7
    ELSE ToU8((voltage_mv - 4213) \div 20)

\* static uint8_t fan5404x_get_iocharge(const uint32_t current_ma)
fan5404x_get_iocharge(current_ma) ==
    IF current_ma < 550 THEN 0
    ELSE ToU8((current_ma - 550) \div 100)

\* variant of fan5404x_get_iterm that forgets to subtract the base
fan5404x_get_iterm_MutNoBase(current_ma) ==
    IF current_ma < 50 THEN 0
    ELSE ToU8(current_ma \div 50)
\* static uint8_t fan5404x_get_iterm(const uint32_t current_ma)
fan5404x_get_iterm(current_ma) ==
    IF current_ma < 50 THEN 0
    ELSE ToU8((current_ma - 50) \div 50)

\* static uint8_t fan5404x_get_vsafe(const uint32_t voltage_mv)
fan5404x_get_vsafe(voltage_mv) ==
    IF voltage_mv < 4200 THEN 0
    ELSE ToU8((voltage_mv - 4200) \div 20)

\* static uint8_t fan5404x_get_isafe(const uint32_t current_ma)
fan5404x_get_isafe(current_ma) == fan5404x_get_iocharge(current_ma)

\* the value of a non-void function that ends without a return statement
NoReturnValue == 0..255

\* variant of fan5404x_get_ibus_limit with the 800 mA boundary in the second
\* branch (current_ma <= 800)
fan5404x_get_ibus_limit_MutLe(current_ma) ==
    IF current_ma < 500 THEN {0}
    ELSE IF current_ma <= 800 THEN {1}
    ELSE IF current_ma = 800 THEN {2}
    ELSE IF current_ma > 800 THEN {3}
    ELSE NoReturnValue
\* static uint8_t fan5404x_get_ibus_limit(const uint32_t current_ma)
\* the set of values a call may return: the if/else-if chain has no final
\* else, so a call that matched no branch would return an indeterminate value
fan5404x_get_ibus_limit(current_ma) ==
    IF current_ma < 500 THEN {0}
    ELSE IF current_ma < 800 THEN {1}
    ELSE IF current_ma = 800 THEN {2}
    ELSE IF current_ma > 800 THEN {3}
    ELSE NoReturnValue

\* static uint8_t fan5404x_get_oreg(const uint32_t voltage_mv)
fan5404x_get_oreg(voltage_mv) ==
    IF voltage_mv < 3500 THEN 0
    ELSE ToU8((voltage_mv - 3500) \div 20)

QuantUnchangedOthers == UNCHANGED <<ledVars, chgVars, probeVars>>

\* a caller applies one helper to its input
Apply(fn, code) ==
    /\ qpc = "in"
    /\ qout' = code
    /\ qfn' = fn
    /\ qpc' = "out"
    /\ UNCHANGED qin
    /\ QuantUnchangedOthers

q_iocharge == Apply("iocharge", fan5404x_get_iocharge(qin))
q_iterm == Apply("iterm", fan5404x_get_iterm(qin))
q_vsafe == Apply("vsafe", fan5404x_get_vsafe(qin))
q_isafe == Apply("isafe", fan5404x_get_isafe(qin))
q_vbus_limit == Apply("vbus_limit", fan5404x_get_vbus_limit(qin))
q_ibus_limit ==
    \E code \in fan5404x_get_ibus_limit(qin) : Apply("ibus_limit", code)
q_oreg == Apply("oreg", fan5404x_get_oreg(qin))

InitQuant ==
    /\ LedIdle /\ ChargerIdle /\ ProbeIdle
    /\ qpc = "in" /\ qin \in 0..MaxMv /\ qfn = "none" /\ qout = 0

NextQuant ==
    \/ q_iocharge
    \/ q_iterm
    \/ q_vsafe
    \/ q_isafe
    \/ q_vbus_limit
    \/ q_ibus_limit
    \/ q_oreg

SpecQuant == InitQuant /\ [][NextQuant]_vars

(***************************************************************************)
(* Properties of the conversion helpers (checked under SpecQuant).         *)
(***************************************************************************)
\* C10 (as claimed): the bus-voltage-limit code is always in 0..7: 0 below
\* 4213 mV, floor((v - 4213) / 20) while that is at most 7, and 7 above.
C10_VbusLimitClamped ==
    (qpc = "out" /\ qfn = "vbus_limit") =>
        /\ qout \in 0..7
        /\ qout = (IF qin < 4213 THEN 0
                   ELSE IF (qin - 4213) \div 20 > 7 THEN 7
                   ELSE (qin - 4213) \div 20)

\* C11: the bus-current-limit classifier gives every input a code: 0 below
\* 500 mA (0 included), 1 in [500, 800), 2 at exactly 800, 3 above 800.
C11_IbusClassifier ==
    (qpc = "out" /\ qfn = "ibus_limit") =>
        qout = (IF qin <= 499 THEN 0
                ELSE IF qin <= 799 THEN 1
                ELSE IF qin = 800 THEN 2
                ELSE 3)

\* C11 witness: the input 800 classified as 2.
C11_Witness == qpc = "out" /\ qfn = "ibus_limit" /\ qin = 800 /\ qout = 2

\* base and step of the five linear tables
LinearTables ==
    [iocharge |-> [base |-> 550, step |-> 100],
     iterm    |-> [base |-> 50, step |-> 50],
     vsafe    |-> [base |-> 4200, step |-> 20],
     isafe    |-> [base |-> 550, step |-> 100],
     oreg     |-> [base |-> 3500, step |-> 20]]
LinearNames == {"iocharge", "iterm", "vsafe", "isafe", "oreg"}
Floor(fn, v) == (v - LinearTables[fn].base) \div LinearTables[fn].step

\* C12 (as claimed): for each linear table the returned code is 0 below the
\* base and floor((v - base) / step) otherwise, for every input.
C12_LinearQuantize ==
    (qpc = "out" /\ qfn \in LinearNames) =>
        qout = (IF qin < LinearTables[qfn].base THEN 0 ELSE Floor(qfn, qin))

\* C12 (amended): for each linear table the returned code is 0 below the
\* base and otherwise floor((v - base) / step) reduced modulo 256 (the 8-bit
\* return type), hence the quotient itself while it is at most 255.
C12_LinearQuantizeMod256 ==
    (qpc = "out" /\ qfn \in LinearNames) =>
        /\ qout \in 0..255
        /\ qin < LinearTables[qfn].base => qout = 0
        /\ qin >= LinearTables[qfn].base =>
              \E k \in 0..((MaxMv + 1) \div 256) :
                  Floor(qfn, qin) = qout + 256 * k
        /\ (qin >= LinearTables[qfn].base /\ Floor(qfn, qin) <= 255)
              => qout = Floor(qfn, qin)

\* C12 witness: the termination-current table past its 8-bit range, where
\* the quotient 256 comes back as code 0.
C12_Witness ==
    qpc = "out" /\ qfn = "iterm" /\ qin = 12850 /\ qout = 0

\* the codes helper fn may return for input v
HelperCodes(fn, v) ==
    CASE fn = "iocharge" -> {fan5404x_get_iocharge(v)}
      [] fn = "iterm" -> {fan5404x_get_iterm(v)}
      [] fn = "vsafe" -> {fan5404x_get_vsafe(v)}
      [] fn = "isafe" -> {fan5404x_get_isafe(v)}
      [] fn = "vbus_limit" -> {fan5404x_get_vbus_limit(v)}
      [] fn = "ibus_limit" -> fan5404x_get_ibus_limit(v)
      [] fn = "oreg" -> {fan5404x_get_oreg(v)}

\* C13 (as claimed): every conversion helper is monotonic; stated on
\* neighbouring inputs a = b - 1, which over the contiguous input range
\* is the same as for all a <= b.
C13_Monotonic ==
    (qpc = "out" /\ qin >= 1) =>
        \A c \in HelperCodes(qfn, qin - 1) : c <= qout

\* the current limit a bus-current-limit code selects, in mA; code 3 selects
\* no limit
IbusLimitMa == [c \in 0..2 |-> CASE c = 0 -> 100 [] c = 1 -> 500 [] c = 2 -> 800]

\* C16 (as claimed): the limit selected by the bus-current-limit code never
\* exceeds the requested current.
C16_IbusUnderRequest ==
    (qpc = "out" /\ qfn = "ibus_limit") =>
        /\ qout \in 0..2
        /\ IbusLimitMa[qout] <= qin

(***************************************************************************)
(* Further properties of the LED driver.                                   *)
(***************************************************************************)
\* C15: bd65b60_remove issues exactly one bus operation, a write of OFF to
\* register 0x0E, whether or not it succeeds; it never waits (each of its
\* steps can be taken at once, whoever holds the lock) and once it has
\* returned it issues nothing more.
C15_ShutdownOneWrite ==
    \A t \in Threads :
        /\ pc[t] = "rm_pon" => (oplog[t] = <<>> /\ ENABLED rm_write_pon(t))
        /\ pc[t] = "rm_ret" =>
              /\ Len(oplog[t]) = 1
              /\ oplog[t][1].kind = "write"
              /\ oplog[t][1].reg = 14
              /\ oplog[t][1].val = 0
              /\ ENABLED rm_return(t)
        /\ rm_phase = "done" => pc[t] \notin {"rm_pon", "rm_ret"}

\* C15 witness: the single write has failed while another thread holds the
\* lock, and bd65b60_remove is about to return.
C15_Witness ==
    \E t \in Threads :
        /\ pc[t] = "rm_ret"
        /\ Len(oplog[t]) = 1 /\ ~oplog[t][1].ok
        /\ lock \in Threads \ {t}

\* C18: on a reliable bus, after bd65b60_init with state OFF or ON, whenever
\* nobody holds the lock the chip's power-on register equals the stored
\* state, and once a bd65b60_brightness_set call has completed the stored
\* state is ON exactly when the brightness register is non-zero.
C18_StateMirrorsChip ==
    (InitReturned /\ rm_phase = "no" /\ lock = NoOwner) =>
        /\ led_state \in {0, 1}
        /\ regs[14] = led_state
        /\ set_completed => (led_state = 1 <=> regs[5] # 0)

\* C18 witness: a call has completed, the LED is lit, nobody holds the lock
\* and another call is waiting to take it.
C18_Witness ==
    /\ InitReturned /\ rm_phase = "no" /\ lock = NoOwner
    /\ set_completed /\ led_state = 1 /\ regs[5] = 255
    /\ \E t \in Threads : pc[t] = "bs_lock"

\* C19 (as claimed): when the power-on write of bd65b60_brightness_set has
\* failed, the stored state is the one the call found at entry.
C19_StateKeptOnFailure ==
    \A t \in Threads :
        (/\ pc[t] = "bs_unlock"
         /\ Len(oplog[t]) = 2
         /\ oplog[t][2].reg = 14
         /\ ~oplog[t][2].ok) => led_state = entry_state[t]

\* C20 (as claimed): once bd65b60_remove has returned after a successful
\* write and every bd65b60_brightness_set call has returned, the chip's
\* power-on register is OFF.
C20_ShutdownEffective ==
    (rm_phase = "done" /\ \A t \in Threads : pc[t] = "idle") => regs[14] = 0

(***************************************************************************)
(* Properties of bd65b60_probe (checked under SpecProbe).                  *)
(***************************************************************************)
SelectInvalid == \E v \in dt.select : BitAndU(v, 5) # v
OvpInvalid == \E v \in dt.ovp : BitAndU(v, 24) # v
ConfigInvalid == dt.child /\ (dt.select = {} \/ SelectInvalid \/ OvpInvalid)

\* C14 (as claimed): when the select value has a bit outside 0x05, or the
\* ovp value has a bit outside 0x18, or select is missing, no bus operation
\* is ever issued (no call ever has one in its log) and bd65b60_probe
\* returns an error.
C14_ValidationBeforeIO ==
    ConfigInvalid =>
        /\ \A t \in Threads : oplog[t] = <<>>
        /\ ppc = "done" => probe_ret # 0

\* C17 (as claimed): once bd65b60_dt_parse is past its default-state block
\* (it goes on to ovp, or it returned from within the block): "keep" gave
\* KEEP, "on" gave ON, "off" gave OFF, any other string made it return an
\* error, and an absent property let it go on with state OFF.
C17_DefaultState ==
    (ppc = "dp_ovp" \/ (ppc = "pr_dt" /\ dp_exit = "default-state")) =>
        /\ dt.default_state = {"keep"} => (ppc = "dp_ovp" /\ led_state = 2)
        /\ dt.default_state = {"on"} => (ppc = "dp_ovp" /\ led_state = 1)
        /\ dt.default_state = {"off"} => (ppc = "dp_ovp" /\ led_state = 0)
        /\ dt.default_state = {"bogus"} => (ppc = "pr_dt" /\ dp_ret # 0)
        /\ dt.default_state = {} => (ppc = "dp_ovp" /\ led_state = 0)

=============================================================================
